---------------------------- MODULE Spec2Model ----------------------------
(***************************************************************************)
(* Warped K-Means (src/js/wkmb.js): sequential clustering of an ordered    *)
(* sample sequence into numclusters contiguous segments.                   *)
(*                                                                         *)
(* Modelling conventions                                                   *)
(*  - A sample is a one-dimensional point and is written as its single     *)
(*    integer coordinate; this.dimensions is therefore 1.                  *)
(*  - A JavaScript number that need not be an integer (threshold,          *)
(*    centroids, energies, J1, J2, delta) is an exact rational <<p, q>>    *)
(*    with q > 0 and gcd(p, q) = 1.  Floating-point rounding is modelled   *)
(*    only where the variable rounding is TRUE (SpecRounded), and there    *)
(*    only for the comparison delta < 0 of two costs that tie at 2/3.      *)
(*  - JavaScript arrays are 0-based; the sequences below are 1-based, so   *)
(*    array index k is sequence index k + 1.  The loop variables i and j   *)
(*    keep their JavaScript (0-based) values.                              *)
(*  - ./mathlib (sqL2, clustercenter, cumdist) is not part of the          *)
(*    available source; it is modelled from the interface contract of the  *)
(*    specification (section 6).                                           *)
(***************************************************************************)
EXTENDS Integers, Sequences, FiniteSets, TLC

VARIABLES
  \* fields of a WKM instance
  samples, numclusters, threshold, initialized, boundaries, clusters,
  centroids, localenergy, totalenergy, iterations, numtransfers, cost,
  \* position inside cluster() and its locals
  pc, j, i, n, points, transfers,
  \* outcome of the last call: "none" or the exception it raised
  err,
  \* history (not program state): the constructor's arguments, the last
  \* method called, the number of cluster() calls started, whether the current
  \* one got a partition, whether any so far did, what the current one
  \* started from, and the move the last step accepted
  args, op, fits, explicit, partitioned, energy0, boundaries0, bstart,
  numtransfers0, iterations0, converged0, lastmove,
  \* history: the method argument of init when init was the last method
  \* called, "none" otherwise
  initmethod,
  \* the arithmetic: FALSE when every operation is exact, TRUE when the costs
  \* of a move are rounded as doubles are
  rounding,
  \* history: the sweeps started since the counters were last reset
  sweeps

vars == <<samples, numclusters, threshold, initialized, boundaries, clusters,
          centroids, localenergy, totalenergy, iterations, numtransfers, cost,
          pc, j, i, n, points, transfers, err,
          args, op, fits, explicit, partitioned, energy0, boundaries0,
          bstart, numtransfers0, iterations0, converged0, lastmove,
          initmethod, rounding, sweeps>>

---------------------------------------------------------------------------
(* Bounds of the model *)

\* longest sample sequence enumerated
MaxN == 5
\* sample coordinates are drawn from 0 .. MaxVal
MaxVal == 2
\* number of cluster() calls made on one instance
MaxFits == 2
\* the sweeps an instance counts over all its fits
MaxSweeps == 201
\* empty lists in an explicit partition
MaxEmpty == 1
\* longest sample sequence of the instances that are refitted with a partition
MaxShortN == 3

---------------------------------------------------------------------------
(* Exact rational arithmetic standing for JavaScript number arithmetic *)

Abs(x) == IF x < 0 THEN -x ELSE x

RECURSIVE GCD(_, _)
GCD(a, b) == IF b = 0 THEN a ELSE GCD(b, a % b)

RNorm(p, q) ==
  LET g == GCD(Abs(p), Abs(q))
      s == IF q < 0 THEN -1 ELSE 1
  IN  <<(s * p) \div g, (s * q) \div g>>

RInt(x) == <<x, 1>>
RZero == RInt(0)
\* sums go through the least common denominator and products are
\* cross-reduced, so that no intermediate value is larger than it has to be
RAdd(a, b) ==
  LET g == GCD(a[2], b[2])
  IN  RNorm(a[1] * (b[2] \div g) + b[1] * (a[2] \div g), (a[2] \div g) * b[2])
RSub(a, b) == RAdd(a, <<-b[1], b[2]>>)
RMul(a, b) ==
  LET x == RNorm(a[1], b[2])
      y == RNorm(b[1], a[2])
  IN  RNorm(x[1] * y[1], x[2] * y[2])
RDiv(a, b) == RMul(a, RNorm(b[2], b[1]))
RLt(a, b) ==
  LET g == GCD(a[2], b[2])
  IN  a[1] * (b[2] \div g) < b[1] * (a[2] \div g)
RLe(a, b) == ~RLt(b, a)
\* Math.floor
RFloor(a) == a[1] \div a[2]

RECURSIVE RSum(_)
RSum(s) == IF s = <<>> THEN RZero ELSE RAdd(Head(s), RSum(Tail(s)))

RECURSIVE ISum(_)
ISum(s) == IF s = <<>> THEN 0 ELSE Head(s) + ISum(Tail(s))

---------------------------------------------------------------------------
(* Math collaborator (./mathlib), modelled from the specification *)

\* squared Euclidean distance between two points
sqL2(u, v) == RMul(RSub(u, v), RSub(u, v))

\* element-wise mean of a non-empty list of points
clustercenter(pts) == RDiv(RSum([k \in 1..Len(pts) |-> RInt(pts[k])]), RInt(Len(pts)))

\* running arc length along the sequence, one entry per point
RECURSIVE cumvalues(_, _)
cumvalues(pts, k) ==
  IF k = 1 THEN 0
  ELSE cumvalues(pts, k - 1) + Abs(pts[k] - pts[k - 1])

cumdist(pts) ==
  [values |-> [k \in 1..Len(pts) |-> cumvalues(pts, k)],
   length |-> cumvalues(pts, Len(pts))]

---------------------------------------------------------------------------
(* Inputs *)

\* every sample sequence of 1 .. MaxN points with coordinates in 0 .. MaxVal
BoundedSeqs == UNION {[1..len -> 0..MaxVal] : len \in 1..MaxN}

\* a longer sequence, on which a whole fit ends worse than it started
LongSeqs == {<<0, 0, 3, 0, 2, 2, 2>>}

SampleSeqs == BoundedSeqs \cup LongSeqs

\* thresholds given to the constructor: -1/2, 0, 1/2, 1, 3/2
RawThresholds == {<<-1, 2>>, <<0, 1>>, <<1, 2>>, <<1, 1>>, <<3, 2>>}

\* segment counts given to the constructor for N samples: -1, 0, 1/2, 1, ..., N + 1
RawCounts(N) == {RNorm(h, 2) : h \in 0..(2 * N + 2)} \cup {RInt(-1)}

\* the thresholds the constructor stores for them
Thresholds == {<<0, 1>>, <<1, 2>>, <<1, 1>>}

\* init(method): undefined, "ts", "eq", and a string that is neither
Methods == {"undefined", "ts", "eq", "other"}

\* an explicit partition handed to cluster(): the samples cut, in order, into
\* M lists of the given lengths, of which at most MaxEmpty are 0
RECURSIVE CutsWith(_, _, _)
CutsWith(N, M, z) ==
  IF M = 1 THEN (IF N > 0 \/ z > 0 THEN {<<N>>} ELSE {})
  ELSE UNION {{<<k>> \o c : c \in CutsWith(N - k, M - 1, IF k = 0 THEN z - 1 ELSE z)} :
                k \in (IF z > 0 THEN 0 ELSE 1)..N}

Cuts(N, M) == CutsWith(N, M, MaxEmpty)

\* the cuts that leave one of the lists empty
EmptyCuts(N, M) == {c \in Cuts(N, M) : \E k \in 1..M : c[k] = 0}

CutParts(smp, c) ==
  [k \in 1..Len(c) |->
     SubSeq(smp, ISum(SubSeq(c, 1, k - 1)) + 1, ISum(SubSeq(c, 1, k)))]

\* cluster() called without a partition
NoPartition == <<>>

---------------------------------------------------------------------------
(* new WKM(samples, numclusters, threshold), reset() *)

maxiter == 100

\* the cost at which two candidates tie in double arithmetic, and samples
\* on which they do
RoundedTie == <<2, 3>>
RoundedSamples == <<1, 1, 2, 1, 1>>

\* the number 0 that reset() stores in every slot of this.clusters
Zero == <<-1>>

\* parseInt of a number: its integer part, truncated towards zero
parseInt(x) == IF x[1] >= 0 THEN x[1] \div x[2] ELSE -((-x[1]) \div x[2])

\* parseFloat(threshold) || 0 of a number
parseFloatOr0(x) == IF x[1] = 0 THEN RZero ELSE x

\* a clamp that forgets the upper end of the range
ClampCount_noUpper(c, N) == IF c < 1 THEN 1 ELSE c

\* lines 24-28
ClampCount(c, N) == IF c < 1 THEN 1 ELSE IF c > N THEN N ELSE c

\* lines 20 and 29-33: the tests read the argument, the default is the parsed value
ClampThreshold(raw) ==
  IF RLt(RInt(1), raw) THEN RInt(1)
  ELSE IF RLt(raw, RZero) THEN RZero
  ELSE parseFloatOr0(raw)

\* the fields reset() assigns, for M clusters
Reset(M) ==
  [initialized  |-> FALSE,
   boundaries   |-> [k \in 1..M |-> 0],
   clusters     |-> [k \in 1..M |-> Zero],
   centroids    |-> [k \in 1..M |-> RZero],
   localenergy  |-> [k \in 1..M |-> RZero],
   totalenergy  |-> RZero,
   iterations   |-> 0,
   numtransfers |-> 0,
   cost         |-> 0]

---------------------------------------------------------------------------
(* init(method), initdefault, TS, resample *)

\* resample(N, M): index idx is recorded when its q exceeds every earlier q
RECURSIVE resampleFrom(_, _, _, _, _)
resampleFrom(N, M, idx, b, acc) ==
  IF idx >= N THEN acc
  ELSE LET q == ((idx + 1) * M) \div (N + 1)
       IN  IF q > b THEN resampleFrom(N, M, idx + 1, q, Append(acc, idx))
           ELSE resampleFrom(N, M, idx + 1, b, acc)

\* a resampling that never records index 0
resample_skipFirst(N, M) == resampleFrom(N, M, 0, 0, <<>>)

\* a resampling whose loop starts at index 1
resample_fromOne(N, M) == resampleFrom(N, M, 1, -1, <<>>)

resample(N, M) == resampleFrom(N, M, 0, -1, <<>>)

InSeq(x, s) == \E k \in 1..Len(s) : s[k] = x

\* the while loop of TS, with fact = (jj - 1) * LN / M; Lcum[idx] is undefined
\* past the last sample, and the comparison with it is false
RECURSIVE tsAdvance(_, _, _, _, _, _)
tsAdvance(Lcum, LN, M, jj, idx, acc) ==
  IF (idx < Len(Lcum) /\ (jj - 1) * LN > Lcum[idx + 1] * M) \/ InSeq(idx, acc)
  THEN tsAdvance(Lcum, LN, M, jj, idx + 1, acc)
  ELSE idx

RECURSIVE tsFrom(_, _, _, _, _, _)
tsFrom(Lcum, LN, M, jj, idx, acc) ==
  IF jj > M THEN acc
  ELSE LET k == tsAdvance(Lcum, LN, M, jj, idx, acc)
       IN  tsFrom(Lcum, LN, M, jj + 1, k, Append(acc, k))

TS(smp, N, M) ==
  LET ret == cumdist(smp)
  IN  tsFrom(ret.values, ret.length, M, 1, 0, <<>>)

\* an initdefault without its last line: the branch taken decides
initdefault_keepBranch(smp, N, M) ==
  IF N < 2 * M THEN resample(N, M) ELSE TS(smp, N, M)

\* initdefault: whichever branch is taken first, resample(N, M) runs last
initdefault(smp, N, M) ==
  LET first == IF N < 2 * M THEN resample(N, M) ELSE TS(smp, N, M)
  IN  resample(N, M)

\* the boundaries init(method) leaves
InitBoundaries(smp, M, method) ==
  LET N == Len(smp)
  IN  IF M <= 1 THEN <<0>>
      ELSE IF M >= N THEN [k \in 1..M |-> k - 1]
      ELSE IF method = "ts" THEN TS(smp, N, M)
      ELSE IF method = "eq" THEN resample(N, M)
      ELSE initdefault(smp, N, M)

\* the flag init(method) leaves: the two early returns keep reset()'s false
InitFlag(smp, M) == M > 1 /\ M < Len(smp)

---------------------------------------------------------------------------
(* getPartition, getClusterSamples, setPartition *)

\* Array.prototype.slice(from, to) on an array of length Len(arr): a negative
\* index counts from the end, an index past the end is the end
SliceIndex(x, len) ==
  IF x < 0 THEN (IF len + x < 0 THEN 0 ELSE len + x)
  ELSE IF x > len THEN len ELSE x

Slice(arr, from, to) ==
  LET a == SliceIndex(from, Len(arr))
      b == SliceIndex(to, Len(arr))
  IN  IF a < b THEN SubSeq(arr, a + 1, b) ELSE <<>>

\* a derivation whose last cluster stops one sample short of the end
getClusterSamples_shortLast(smp, M, bnd, index) ==
  LET l == IF index + 1 < M THEN bnd[index + 2] ELSE Len(smp) - 1
  IN  Slice(smp, bnd[index + 1], l)

\* getClusterSamples(index), index counted from 0
getClusterSamples(smp, M, bnd, index) ==
  LET l == IF index + 1 < M THEN bnd[index + 2] ELSE Len(smp)
  IN  Slice(smp, bnd[index + 1], l)

\* The index of the first cluster getPartition() finds empty, M when none is
RECURSIVE firstEmpty(_, _, _, _)
firstEmpty(smp, M, bnd, jj) ==
  IF jj >= M THEN M
  ELSE IF getClusterSamples(smp, M, bnd, jj) = <<>> THEN jj
  ELSE firstEmpty(smp, M, bnd, jj + 1)

\* getPartition(): clusters 0 .. bad are assigned, the later ones keep what
\* they held; it throws when bad < M
getPartition(smp, M, bnd, cl) ==
  LET bad == firstEmpty(smp, M, bnd, 0)
      top == IF bad < M THEN bad + 1 ELSE M
      len == IF Len(cl) > top THEN Len(cl) ELSE top
  IN  [clusters |-> [k \in 1..len |->
                       IF k <= top THEN getClusterSamples(smp, M, bnd, k - 1)
                       ELSE cl[k]],
       thrown   |-> bad < M]

\* The index of the first empty list of a partition, Len(partition) when none is
RECURSIVE firstEmptyPart(_, _)
firstEmptyPart(partition, jj) ==
  IF jj >= Len(partition) THEN Len(partition)
  ELSE IF partition[jj + 1] = <<>> THEN jj
  ELSE firstEmptyPart(partition, jj + 1)

\* setPartition(partition): boundaries restart as [0] and, for every list but
\* the first, get that list's length minus one; it throws at an empty list
setPartition(partition) ==
  LET bad == firstEmptyPart(partition, 0)
  IN  [boundaries |-> [k \in 1..(IF bad < 1 THEN 1 ELSE bad) |->
                         IF k = 1 THEN 0 ELSE Len(partition[k]) - 1],
       clusters   |-> [k \in 1..bad |-> partition[k]],
       thrown     |-> bad < Len(partition)]

---------------------------------------------------------------------------
(* computeEnergies, incrementalMeans *)

\* sum over the points of a cluster of their squared distance to c
Energy(pts, c) == RSum([k \in 1..Len(pts) |-> sqL2(RInt(pts[k]), c)])

\* computeEnergies(): centroids, local energies and their total, from scratch
computeEnergies(M, cl) ==
  LET cen == [k \in 1..M |-> clustercenter(cl[k])]
      loc == [k \in 1..M |-> Energy(cl[k], cen[k])]
  IN  [centroids |-> cen, localenergy |-> loc, totalenergy |-> RSum(loc)]

\* incrementalMeans(sample, j, bestcluster, n, m): the new centroid of the
\* receiving cluster and of the cluster the sample leaves
newbest(cen, sample, best, m) ==
  RAdd(cen[best + 1], RDiv(RSub(sample, cen[best + 1]), RInt(m + 1)))

newj(cen, sample, jj, nn) ==
  RSub(cen[jj + 1], RDiv(RSub(sample, cen[jj + 1]), RInt(nn - 1)))

incrementalMeans(cen, sample, jj, best, nn, m) ==
  [cen EXCEPT ![best + 1] = newbest(cen, sample, best, m),
              ![jj + 1]   = newj(cen, sample, jj, nn)]

\* the acceptance test's two terms
J1of(cen, sample, best, m) ==
  RMul(RNorm(m, m + 1), sqL2(sample, cen[best + 1]))

J2of(cen, sample, jj, nn) ==
  RMul(RNorm(nn, nn - 1), sqL2(sample, cen[jj + 1]))

\* the last index a left scan may reach: Math.floor(n/2 * (1 - threshold)) + 1
LeftLast(nn, th) == RFloor(RMul(RNorm(nn, 2), RSub(RInt(1), th))) + 1

\* the last index a right scan may reach: Math.floor(n/2 * (1 + threshold)) - 2
RightLast(nn, th) == RFloor(RMul(RNorm(nn, 2), RAdd(RInt(1), th))) - 2

---------------------------------------------------------------------------
(* States *)

\* the fields the constructor leaves, for numeric arguments rawM and rawT
Constructed(smp, rawM, rawT) ==
  LET M == ClampCount(parseInt(rawM), Len(smp))
      r == Reset(M)
  IN  [numclusters |-> M, threshold |-> ClampThreshold(rawT), fields |-> r]

\* no call is running
NoLocals ==
  /\ j' = 0
  /\ i' = 0
  /\ n' = 0
  /\ points' = <<>>

NoMove == <<>>

\* before new WKM(...): only the samples exist
InitNew ==
  /\ samples \in SampleSeqs
  /\ numclusters = 0
  /\ threshold = RZero
  /\ initialized = FALSE
  /\ boundaries = <<>>
  /\ clusters = <<>>
  /\ centroids = <<>>
  /\ localenergy = <<>>
  /\ totalenergy = RZero
  /\ iterations = 0
  /\ numtransfers = 0
  /\ cost = 0
  /\ pc = "new"
  /\ j = 0 /\ i = 0 /\ n = 0 /\ points = <<>> /\ transfers = FALSE
  /\ err = "none"
  /\ args = <<RZero, RZero>>
  /\ op = "none"
  /\ bstart = <<>>
  /\ fits = 0
  /\ explicit = FALSE
  /\ partitioned = FALSE
  /\ initmethod = "none"
  /\ rounding = FALSE
  /\ sweeps = 0
  /\ energy0 = RZero
  /\ boundaries0 = <<>>
  /\ numtransfers0 = 0
  /\ iterations0 = 0
  /\ converged0 = FALSE
  /\ lastmove = NoMove

\* new WKM(samples, rawM, rawT)
Construct(rawM, rawT) ==
  /\ pc = "new"
  /\ LET c == Constructed(samples, rawM, rawT)
     IN  /\ numclusters' = c.numclusters
         /\ threshold' = c.threshold
         /\ initialized' = c.fields.initialized
         /\ boundaries' = c.fields.boundaries
         /\ clusters' = c.fields.clusters
         /\ centroids' = c.fields.centroids
         /\ localenergy' = c.fields.localenergy
         /\ totalenergy' = c.fields.totalenergy
         /\ iterations' = c.fields.iterations
         /\ numtransfers' = c.fields.numtransfers
         /\ cost' = c.fields.cost
  /\ pc' = "idle"
  /\ args' = <<rawM, rawT>>
  /\ op' = "WKM"
  /\ UNCHANGED <<samples, j, i, n, points, transfers, err, fits, explicit, partitioned,
                 initmethod, rounding,
                 energy0, boundaries0, bstart, numtransfers0, iterations0,
                 converged0, lastmove, sweeps>>

\* the state after construction with a segment count in 1 .. N and a
\* threshold in [0, 1], whatever the arithmetic
InitFields ==
  /\ samples \in SampleSeqs
  /\ \E m \in 1..Len(samples), t \in Thresholds :
       LET c == Constructed(samples, RInt(m), t)
       IN  /\ numclusters = c.numclusters
           /\ threshold = c.threshold
           /\ initialized = c.fields.initialized
           /\ boundaries = c.fields.boundaries
           /\ clusters = c.fields.clusters
           /\ centroids = c.fields.centroids
           /\ localenergy = c.fields.localenergy
           /\ totalenergy = c.fields.totalenergy
           /\ iterations = c.fields.iterations
           /\ numtransfers = c.fields.numtransfers
           /\ cost = c.fields.cost
           /\ args = <<RInt(m), t>>
  /\ pc = "idle"
  /\ j = 0 /\ i = 0 /\ n = 0 /\ points = <<>> /\ transfers = FALSE
  /\ err = "none"
  /\ op = "WKM"
  /\ bstart = <<>>
  /\ fits = 0
  /\ explicit = FALSE
  /\ partitioned = FALSE
  /\ initmethod = "none"
  /\ sweeps = 0
  /\ energy0 = RZero
  /\ boundaries0 = <<>>
  /\ numtransfers0 = 0
  /\ iterations0 = 0
  /\ converged0 = FALSE
  /\ lastmove = NoMove

\* the state after construction, in exact arithmetic
Init == InitFields /\ rounding = FALSE

---------------------------------------------------------------------------
(* init(method) *)

\* init(method), called before the first cluster()
InitCall(method) ==
  /\ pc = "idle"
  /\ fits = 0
  /\ LET r == Reset(numclusters)
     IN  /\ initialized' = InitFlag(samples, numclusters)
         /\ boundaries' = InitBoundaries(samples, numclusters, method)
         /\ clusters' = r.clusters
         /\ centroids' = r.centroids
         /\ localenergy' = r.localenergy
         /\ totalenergy' = r.totalenergy
         /\ iterations' = r.iterations
         /\ numtransfers' = r.numtransfers
         /\ cost' = r.cost
  /\ err' = "none"
  /\ op' = "init"
  /\ initmethod' = method
  /\ sweeps' = 0
  /\ UNCHANGED <<samples, numclusters, threshold, pc, j, i, n, points,
                 transfers, args, fits, explicit, partitioned,
                 rounding, energy0, boundaries0, bstart,
                 numtransfers0, iterations0, converged0, lastmove>>

---------------------------------------------------------------------------
(* cluster(partition) *)

\* whether one of the lists of a partition is empty
HasEmpty(partition) == \E k \in 1..Len(partition) : partition[k] = <<>>

\* The calls the model makes: at most MaxFits on an instance, a partition
\* without an empty list only on the first, and none on an instance whose
\* partition was rejected (setPartition left its boundary array short).
MayCall(partition) ==
  /\ fits < MaxFits
  /\ Len(boundaries) = numclusters
  /\ (partition # NoPartition /\ ~HasEmpty(partition)) => fits = 0

\* lines 240-245: init() if needed, set or derive the partition, compute the
\* energies, and return at once when there is a single cluster
ClusterBegin(partition) ==
  /\ pc = "idle"
  /\ MayCall(partition)
  /\ LET M    == numclusters
         r    == Reset(M)
         bnd0 == IF initialized THEN boundaries
                 ELSE InitBoundaries(samples, M, "undefined")
         cl0  == IF initialized THEN clusters ELSE r.clusters
         sp   == setPartition(partition)
         gp   == getPartition(samples, M, bnd0, cl0)
         bnd1 == IF partition # NoPartition THEN sp.boundaries ELSE bnd0
         cl1  == IF partition # NoPartition THEN sp.clusters ELSE gp.clusters
         thrown == IF partition # NoPartition THEN sp.thrown ELSE gp.thrown
         ce   == computeEnergies(M, cl1)
     IN  /\ initialized' = (initialized \/ InitFlag(samples, M))
         /\ boundaries' = bnd1
         /\ bstart' = bnd1
         /\ clusters' = cl1
         /\ iterations' = IF initialized THEN iterations ELSE r.iterations
         /\ numtransfers' = IF initialized THEN numtransfers ELSE r.numtransfers
         /\ cost' = IF initialized THEN cost ELSE r.cost
         /\ iterations0' = iterations'
         /\ IF thrown
            THEN /\ centroids' = IF initialized THEN centroids ELSE r.centroids
                 /\ localenergy' = IF initialized THEN localenergy ELSE r.localenergy
                 /\ totalenergy' = IF initialized THEN totalenergy ELSE r.totalenergy
                 /\ err' = "EmptyCluster"
                 /\ pc' = "idle"
                 /\ energy0' = RZero
                 /\ sweeps' = IF initialized THEN sweeps ELSE 0
            ELSE /\ centroids' = ce.centroids
                 /\ localenergy' = ce.localenergy
                 /\ totalenergy' = ce.totalenergy
                 /\ err' = "none"
                 /\ pc' = IF M < 2 THEN "idle" ELSE "seg"
                 /\ sweeps' = (IF initialized THEN sweeps ELSE 0)
                              + (IF M < 2 THEN 0 ELSE 1)
                 /\ energy0' = ce.totalenergy
  /\ NoLocals
  /\ transfers' = FALSE
  /\ fits' = fits + 1
  /\ explicit' = (partition # NoPartition)
  /\ partitioned' = (partitioned \/ partition # NoPartition)
  /\ op' = "cluster"
  /\ boundaries0' = boundaries
  /\ numtransfers0' = numtransfers
  /\ converged0' = (fits > 0 /\ ~explicit /\ err = "none" /\ ~transfers)
  /\ lastmove' = NoMove
  /\ initmethod' = "none"
  /\ UNCHANGED <<samples, numclusters, threshold, args, rounding>>

\* a loop head that skips only the clusters without any sample
Segment_scanSingletons ==
  /\ pc = "seg"
  /\ j < numclusters
  /\ points' = clusters[j + 1]
  /\ n' = Len(clusters[j + 1])
  /\ IF Len(clusters[j + 1]) < 1
     THEN /\ j' = j + 1
          /\ pc' = "seg"
          /\ i' = i
     ELSE IF j > 0
     THEN /\ j' = j
          /\ pc' = "left"
          /\ i' = 0
     ELSE /\ j' = j
          /\ pc' = "mid"
          /\ i' = i
  /\ lastmove' = NoMove
  /\ UNCHANGED <<samples, numclusters, threshold, initialized, boundaries,
                 clusters, centroids, localenergy, totalenergy, iterations,
                 numtransfers, cost, transfers, err, args, op, fits, explicit, partitioned,
                 initmethod, rounding,
                 energy0, boundaries0, bstart, numtransfers0, iterations0,
                 converged0, sweeps>>

\* lines 250-255: the head of the loop over the clusters
Segment ==
  /\ pc = "seg"
  /\ j < numclusters
  /\ points' = clusters[j + 1]
  /\ n' = Len(clusters[j + 1])
  /\ IF Len(clusters[j + 1]) < 2
     THEN /\ j' = j + 1
          /\ pc' = "seg"
          /\ i' = i
     ELSE IF j > 0
     THEN /\ j' = j
          /\ pc' = "left"
          /\ i' = 0
     ELSE /\ j' = j
          /\ pc' = "mid"
          /\ i' = i
  /\ lastmove' = NoMove
  /\ UNCHANGED <<samples, numclusters, threshold, initialized, boundaries,
                 clusters, centroids, localenergy, totalenergy, iterations,
                 numtransfers, cost, transfers, err, args, op, fits, explicit, partitioned,
                 initmethod, rounding,
                 energy0, boundaries0, bstart, numtransfers0, iterations0,
                 converged0, sweeps>>

\* lines 279-283: between the two scans of a cluster
Middle ==
  /\ pc = "mid"
  /\ points' = clusters[j + 1]
  /\ n' = Len(clusters[j + 1])
  /\ IF Len(clusters[j + 1]) < 2 \/ ~(j + 1 < numclusters)
     THEN /\ j' = j + 1
          /\ pc' = "seg"
          /\ i' = i
     ELSE /\ j' = j
          /\ pc' = "right"
          /\ i' = Len(clusters[j + 1]) - 1
  /\ lastmove' = NoMove
  /\ UNCHANGED <<samples, numclusters, threshold, initialized, boundaries,
                 clusters, centroids, localenergy, totalenergy, iterations,
                 numtransfers, cost, transfers, err, args, op, fits, explicit, partitioned,
                 initmethod, rounding,
                 energy0, boundaries0, bstart, numtransfers0, iterations0,
                 converged0, sweeps>>

\* Lines 260-264, delta < 0.  In exact arithmetic it is J1 < J2.  In double
\* arithmetic the tie J1 = J2 = 2/3 between a cluster of m = 2 and a cluster
\* of n = 3 samples is computed as (2/3) * 1 = 0.6666666666666666 against
\* (3/2) * (4/9) = 0.6666666666666667, so that delta is -1.1e-16.
DeltaNegative(J1, J2, m, nn) ==
  \/ RLt(RSub(J1, J2), RZero)
  \/ rounding /\ J1 = J2 /\ J1 = RoundedTie /\ m = 2 /\ nn = 3

\* a candidate evaluation after which the scan goes on to the next index
\* also when the candidate was rejected
Evaluate_noBreak(best, moved, inext, more, after, jafter) ==
  IF i < 0 \/ i >= Len(points)
  THEN \* points[i] is undefined and sqL2 reads its coordinates
       /\ err' = "TypeError"
       /\ pc' = "idle"
       /\ NoLocals
       /\ lastmove' = NoMove
       /\ UNCHANGED <<boundaries, clusters, centroids, localenergy,
                      totalenergy, numtransfers, cost, transfers>>
  ELSE
    LET sample == RInt(points[i + 1])
        m      == Len(clusters[best + 1])
        J1     == J1of(centroids, sample, best, m)
        J2     == J2of(centroids, sample, j, n)
        delta  == RSub(J1, J2)
        neg    == DeltaNegative(J1, J2, m, n)
        gp     == getPartition(samples, numclusters, moved, clusters)
    IN  /\ cost' = cost + 1
        /\ IF neg /\ Len(clusters[j + 1]) > 1
           THEN /\ transfers' = TRUE
                /\ numtransfers' = numtransfers + 1
                /\ boundaries' = moved
                /\ centroids' = incrementalMeans(centroids, sample, j, best, n, m)
                /\ localenergy' = [localenergy EXCEPT
                                     ![best + 1] = RAdd(localenergy[best + 1], J1),
                                     ![j + 1] = RSub(localenergy[j + 1], J2)]
                /\ totalenergy' = RAdd(totalenergy, delta)
                /\ clusters' = gp.clusters
                /\ lastmove' = <<j, best>>
                /\ IF gp.thrown
                   THEN /\ err' = "EmptyCluster"
                        /\ pc' = "idle"
                        /\ NoLocals
                   ELSE /\ err' = err
                        /\ UNCHANGED <<n, points>>
                        /\ IF more
                           THEN /\ pc' = pc
                                /\ i' = inext
                                /\ j' = j
                           ELSE /\ pc' = after
                                /\ i' = inext
                                /\ j' = jafter
           ELSE /\ pc' = IF more THEN pc ELSE after
                /\ j' = IF more THEN j ELSE jafter
                /\ i' = inext
                /\ lastmove' = NoMove
                /\ UNCHANGED <<boundaries, clusters, centroids, localenergy,
                               totalenergy, numtransfers, transfers, err,
                               n, points>>

\* One candidate of a scan of cluster j towards cluster best (lines 257-276
\* and 285-304): moved is the boundary array after the shift, inext the next
\* index of the scan and more whether the loop goes on to it.
Evaluate(best, moved, inext, more, after, jafter) ==
  IF i < 0 \/ i >= Len(points)
  THEN \* points[i] is undefined and sqL2 reads its coordinates
       /\ err' = "TypeError"
       /\ pc' = "idle"
       /\ NoLocals
       /\ lastmove' = NoMove
       /\ UNCHANGED <<boundaries, clusters, centroids, localenergy,
                      totalenergy, numtransfers, cost, transfers>>
  ELSE
    LET sample == RInt(points[i + 1])
        m      == Len(clusters[best + 1])
        J1     == J1of(centroids, sample, best, m)
        J2     == J2of(centroids, sample, j, n)
        delta  == RSub(J1, J2)
        neg    == DeltaNegative(J1, J2, m, n)
        gp     == getPartition(samples, numclusters, moved, clusters)
    IN  /\ cost' = cost + 1
        /\ IF neg /\ Len(clusters[j + 1]) > 1
           THEN /\ transfers' = TRUE
                /\ numtransfers' = numtransfers + 1
                /\ boundaries' = moved
                /\ centroids' = incrementalMeans(centroids, sample, j, best, n, m)
                /\ localenergy' = [localenergy EXCEPT
                                     ![best + 1] = RAdd(localenergy[best + 1], J1),
                                     ![j + 1] = RSub(localenergy[j + 1], J2)]
                /\ totalenergy' = RAdd(totalenergy, delta)
                /\ clusters' = gp.clusters
                /\ lastmove' = <<j, best>>
                /\ IF gp.thrown
                   THEN /\ err' = "EmptyCluster"
                        /\ pc' = "idle"
                        /\ NoLocals
                   ELSE /\ err' = err
                        /\ UNCHANGED <<n, points>>
                        /\ IF more
                           THEN /\ pc' = pc
                                /\ i' = inext
                                /\ j' = j
                           ELSE /\ pc' = after
                                /\ i' = inext
                                /\ j' = jafter
           ELSE /\ pc' = after
                /\ j' = jafter
                /\ lastmove' = NoMove
                /\ UNCHANGED <<boundaries, clusters, centroids, localenergy,
                               totalenergy, numtransfers, transfers, err, i,
                               n, points>>

\* lines 256-277: one candidate of the scan of the first half
LeftScan ==
  /\ pc = "left"
  /\ Evaluate(j - 1,
              [boundaries EXCEPT ![j + 1] = @ + 1],
              i + 1,
              i + 1 <= LeftLast(n, threshold),
              "mid", j)
  /\ UNCHANGED <<samples, numclusters, threshold, initialized, iterations,
                 args, op, fits, explicit, partitioned,
                 initmethod, rounding, energy0, boundaries0, bstart,
                 numtransfers0, iterations0, converged0, sweeps>>

\* a right scan that moves the start of cluster j instead of the start of
\* the cluster after it
RightScan_ownBoundary ==
  /\ pc = "right"
  /\ Evaluate(j + 1,
              [boundaries EXCEPT ![j + 1] = @ - 1],
              i - 1,
              i - 1 >= RightLast(n, threshold),
              "seg", j + 1)
  /\ UNCHANGED <<samples, numclusters, threshold, initialized, iterations,
                 args, op, fits, explicit, partitioned,
                 initmethod, rounding, energy0, boundaries0, bstart,
                 numtransfers0, iterations0, converged0, sweeps>>

\* lines 284-305: one candidate of the scan of the second half
RightScan ==
  /\ pc = "right"
  /\ Evaluate(j + 1,
              [boundaries EXCEPT ![j + 2] = @ - 1],
              i - 1,
              i - 1 >= RightLast(n, threshold),
              "seg", j + 1)
  /\ UNCHANGED <<samples, numclusters, threshold, initialized, iterations,
                 args, op, fits, explicit, partitioned,
                 initmethod, rounding, energy0, boundaries0, bstart,
                 numtransfers0, iterations0, converged0, sweeps>>

\* lines 308-310: the end of a sweep over the clusters
EndSweep ==
  /\ pc = "seg"
  /\ j >= numclusters
  /\ iterations < MaxSweeps
  /\ iterations' = iterations + 1
  /\ IF ~transfers \/ iterations + 1 = maxiter
     THEN /\ pc' = "final"
          /\ transfers' = transfers
          /\ sweeps' = sweeps
     ELSE /\ pc' = "seg"
          /\ transfers' = FALSE
          /\ sweeps' = sweeps + 1
  /\ j' = 0
  /\ lastmove' = NoMove
  /\ UNCHANGED <<samples, numclusters, threshold, initialized, boundaries,
                 clusters, centroids, localenergy, totalenergy, numtransfers,
                 cost, i, n, points, err, args, op, fits, explicit, partitioned,
                 initmethod, rounding, energy0,
                 boundaries0, bstart, numtransfers0, iterations0, converged0>>

\* line 313: the energies are recomputed from scratch and cluster() returns
Finish ==
  /\ pc = "final"
  /\ LET ce == computeEnergies(numclusters, clusters)
     IN  /\ centroids' = ce.centroids
         /\ localenergy' = ce.localenergy
         /\ totalenergy' = ce.totalenergy
  /\ pc' = "idle"
  /\ NoLocals
  /\ lastmove' = NoMove
  /\ UNCHANGED <<samples, numclusters, threshold, initialized, boundaries,
                 clusters, iterations, numtransfers, cost, transfers, err,
                 args, op, fits, explicit, partitioned,
                 initmethod, rounding, energy0, boundaries0, bstart,
                 numtransfers0, iterations0, converged0, sweeps>>

---------------------------------------------------------------------------
(* Specifications *)

Next ==
  \/ \E method \in Methods : InitCall(method)
  \/ ClusterBegin(NoPartition)
  \/ /\ pc = "idle"
     /\ op = "WKM"
     /\ \E c \in Cuts(Len(samples), numclusters) :
          ClusterBegin(CutParts(samples, c))
  \/ Segment
  \/ LeftScan
  \/ Middle
  \/ RightScan
  \/ EndSweep
  \/ Finish

Spec == Init /\ [][Next]_vars

\* the constructor alone, over arguments inside and outside their ranges
NextConstruct ==
  \E rawM \in RawCounts(Len(samples)), rawT \in RawThresholds :
    Construct(rawM, rawT)

SpecConstruct == InitNew /\ [][NextConstruct]_vars

\* the constructor's result and init(method) alone
NextInit == \E method \in Methods : InitCall(method)

SpecInit == Init /\ [][NextInit]_vars

\* short sample sequences, on which a later cluster() call may also be handed
\* a partition with an empty list
InitShort == Init /\ Len(samples) <= MaxShortN

NextRefit ==
  \/ Next
  \/ /\ pc = "idle"
     /\ fits > 0
     /\ \E c \in EmptyCuts(Len(samples), numclusters) :
          ClusterBegin(CutParts(samples, c))

SpecRefit == InitShort /\ [][NextRefit]_vars

\* double arithmetic on the samples whose costs tie at 2/3: consecutive
\* cluster() calls, the first of which runs init() itself
InitRounded ==
  /\ InitFields
  /\ rounding = TRUE
  /\ samples = RoundedSamples
  /\ numclusters = 2

NextRounded ==
  \/ ClusterBegin(NoPartition)
  \/ Segment
  \/ LeftScan
  \/ Middle
  \/ RightScan
  \/ EndSweep
  \/ Finish

SpecRounded == InitRounded /\ [][NextRounded]_vars

---------------------------------------------------------------------------
(* Properties *)

RECURSIVE Flatten(_)
Flatten(ss) == IF ss = <<>> THEN <<>> ELSE Head(ss) \o Flatten(Tail(ss))

\* b is strictly increasing, starts at 0, has one entry per cluster and every
\* entry is an index of a sample
ValidBoundaries(b) ==
  /\ Len(b) = numclusters
  /\ b[1] = 0
  /\ \A k \in 1..(Len(b) - 1) : b[k] < b[k + 1]
  /\ \A k \in 1..Len(b) : b[k] < Len(samples)

\* where segment k (counted from 1) ends according to the boundaries
SegmentEnd(k) == IF k < numclusters THEN boundaries[k + 1] ELSE Len(samples)

\* cluster k holds exactly samples[boundary[k-1] .. end)
SegmentIsSlice(k) ==
  /\ 0 <= boundaries[k]
  /\ boundaries[k] <= SegmentEnd(k)
  /\ SegmentEnd(k) <= Len(samples)
  /\ clusters[k] = SubSeq(samples, boundaries[k] + 1, SegmentEnd(k))

SegmentsPartition ==
  /\ Len(clusters) = numclusters
  /\ Len(boundaries) = numclusters
  /\ \A k \in 1..numclusters : SegmentIsSlice(k)
  /\ Flatten(clusters) = samples
  /\ ISum([k \in 1..numclusters |-> Len(clusters[k])]) = Len(samples)

\* cluster k is what Array.slice returns between boundary k-1 and the next
SegmentIsArraySlice(k) ==
  clusters[k] = Slice(samples, boundaries[k], SegmentEnd(k))

\* C1: in every state of a cluster() call without a partition that has not
\* thrown (after the first derivation, after each accepted move, on return)
\* there are M clusters, their sizes sum to N, concatenated in index order
\* they are the sample sequence, and cluster k is the slice of the samples
\* between boundary k and the next; on an instance that was never given a
\* partition every boundary is moreover the offset at which its cluster
\* starts.
C1_SegmentsPartition ==
  (op = "cluster" /\ ~explicit /\ err = "none") =>
     /\ Len(clusters) = numclusters
     /\ Len(boundaries) = numclusters
     /\ ISum([k \in 1..numclusters |-> Len(clusters[k])]) = Len(samples)
     /\ Flatten(clusters) = samples
     /\ \A k \in 1..numclusters : SegmentIsArraySlice(k)
     /\ ~partitioned => SegmentsPartition

\* C1 witness: a second move has been accepted in such a call.
C1_Witness ==
  /\ op = "cluster" /\ ~partitioned /\ err = "none"
  /\ lastmove # NoMove
  /\ numtransfers >= 2
  /\ pc \in {"left", "right"}

\* C2: when the optimization loop starts from boundaries that are strictly
\* increasing, start at 0 and are all below N, no accepted move empties a
\* segment: the boundaries stay strictly increasing, every cluster keeps a
\* member and no re-derivation throws "Empty cluster".
C2_NoSegmentEmptied ==
  (op = "cluster" /\ ValidBoundaries(bstart)) =>
     /\ err # "EmptyCluster"
     /\ ValidBoundaries(boundaries)
     /\ \A k \in 1..Len(clusters) : clusters[k] # <<>>

\* C3: init(method) leaves exactly M boundaries, strictly increasing, the
\* first of them 0.
C3_InitBoundaries ==
  op = "init" =>
     /\ Len(boundaries) = numclusters
     /\ boundaries[1] = 0
     /\ \A k \in 1..(Len(boundaries) - 1) : boundaries[k] < boundaries[k + 1]

\* C3 witness: init ran one of its methods (1 < M < N) and did not produce
\* the boundaries 0, 1, 2, ...
C3_Witness ==
  /\ op = "init"
  /\ initialized
  /\ boundaries # [k \in 1..numclusters |-> k - 1]

\* C4: when a cluster() call without a partition returns, the total energy
\* computed from scratch is at most the from-scratch total energy of the
\* partition the call started from.
C4_EnergyNotIncreased ==
  (op = "cluster" /\ ~partitioned /\ pc = "idle" /\ err = "none") =>
     RLe(totalenergy, energy0)

\* C5: after every accepted move (of a call without a partition) the
\* incrementally updated centroids of the source and of the destination
\* cluster are the means of the members re-derived from the boundaries.
C5_CentroidsAreMeans ==
  (lastmove # NoMove /\ ~partitioned /\ err = "none") =>
     /\ centroids[lastmove[1] + 1] = clustercenter(clusters[lastmove[1] + 1])
     /\ centroids[lastmove[2] + 1] = clustercenter(clusters[lastmove[2] + 1])

\* C6: the first cluster() call on an instance (no partition given) raises
\* no error and makes at most 100 sweeps; it returns with fewer than 100
\* only if its last sweep accepted no move, and if its last sweep accepted a
\* move it returns with exactly 100.
C6_FitEndsWithinCap ==
  (op = "cluster" /\ fits = 1 /\ ~partitioned) =>
     /\ err = "none"
     /\ iterations <= maxiter
     /\ (pc = "idle" /\ iterations < maxiter) => ~transfers
     /\ (pc = "idle" /\ transfers) => iterations = maxiter

\* C7: a cluster() call that follows one that returned by convergence (both
\* without a partition) accepts no move and leaves every boundary unchanged.
C7_RefitChangesNothing ==
  (op = "cluster" /\ converged0 /\ ~partitioned) =>
     /\ numtransfers = numtransfers0
     /\ boundaries = boundaries0

\* C8: every boundary init(method) produces is an index below N, and the
\* derivation of the partition that follows it never throws "Empty cluster".
C8_InitNeverFails ==
  /\ op = "init" => \A k \in 1..Len(boundaries) : boundaries[k] < Len(samples)
  /\ (op = "cluster" /\ fits = 1 /\ ~partitioned) => err # "EmptyCluster"

\* the constructor's arguments
RawM == args[1]
RawT == args[2]

CountInRange == RLe(RInt(1), RawM) /\ RLe(RawM, RInt(Len(samples)))
ThresholdInRange == RLe(RZero, RawT) /\ RLe(RawT, RInt(1))

\* what the constructor leaves whatever the form of an in-range count
ConstructorClamps ==
  /\ err = "none"
  /\ 1 <= numclusters /\ numclusters <= Len(samples)
  /\ RLe(RZero, threshold) /\ RLe(threshold, RInt(1))
  /\ RLt(RawM, RInt(1)) => numclusters = 1
  /\ RLt(RInt(Len(samples)), RawM) => numclusters = Len(samples)
  /\ RLt(RawT, RZero) => threshold = RZero
  /\ RLt(RInt(1), RawT) => threshold = RInt(1)
  /\ ThresholdInRange => threshold = RawT

C10_ExplicitBoundaries ==
  (op = "cluster" /\ explicit /\ err = "none") => SegmentsPartition


\* C11: a cluster() call handed a partition with an empty list raises
\* "Empty cluster" and does nothing else: it returns at once (no sweep, no
\* retry) and leaves the sweep count, the accepted-move count and the
\* evaluation count as they were before the call.
C11_EmptyPartitionFatal ==
  [][(fits' = fits + 1 /\ explicit' /\ err' = "EmptyCluster") =>
       /\ pc' = "idle"
       /\ iterations' = iterations
       /\ numtransfers' = numtransfers
       /\ cost' = cost]_vars

\* the stored energies are what computeEnergies() would store
TrackedEnergiesExact ==
  /\ totalenergy = RSum(localenergy)
  /\ \A k \in 1..numclusters :
       localenergy[k] = Energy(clusters[k], clustercenter(clusters[k]))

\* C12: in a cluster() call on an instance never given a partition, after
\* every accepted move and when the loop has ended (before the final
\* recomputation) the tracked total energy is the sum of the tracked local
\* energies and every tracked local energy is the from-scratch sum of squared
\* distances of the cluster's members to their mean.
C12_TrackedEnergies ==
  (op = "cluster" /\ ~partitioned /\ err = "none" /\
   (lastmove # NoMove \/ pc = "final")) => TrackedEnergiesExact

\* the from-scratch total energy of the partition that boundaries b derive
TrueEnergy(b) ==
  computeEnergies(numclusters,
                  getPartition(samples, numclusters, b, clusters).clusters).totalenergy

\* the size of cluster k (counted from 1) under valid boundaries b
SizeAt(b, k) == (IF k < Len(b) THEN b[k + 1] ELSE Len(samples)) - b[k]

\* No single move the loop could make from boundaries b strictly lowers the
\* true energy: for every cluster of two or more, neither handing its first
\* member to the previous cluster nor its last member to the next one.
LocalOptimumAt(b) ==
  \A k \in 1..numclusters :
    SizeAt(b, k) >= 2 =>
      /\ k > 1 =>
           ~RLt(TrueEnergy([b EXCEPT ![k] = @ + 1]), TrueEnergy(b))
      /\ k < numclusters =>
           ~RLt(TrueEnergy([b EXCEPT ![k + 1] = @ - 1]), TrueEnergy(b))

\* a cluster() call on an instance never given a partition has returned
\* after a sweep that accepted no move
ReturnedConverged ==
  /\ op = "cluster" /\ pc = "idle" /\ err = "none"
  /\ ~partitioned
  /\ numclusters >= 2
  /\ ~transfers

\* C13: when such a call returns by convergence the returned partition is a
\* local optimum of the true energy, and a call that started from a local
\* optimum returns it unchanged after exactly one sweep and no accepted move.
C13_LocalOptimum ==
  /\ ReturnedConverged => LocalOptimumAt(boundaries)
  /\ (ReturnedConverged /\ ValidBoundaries(bstart) /\ LocalOptimumAt(bstart)) =>
       /\ boundaries = bstart
       /\ numtransfers = numtransfers0
       /\ iterations = iterations0 + 1

\* C14: an accepted move changes one boundary by one position, the start of
\* cluster j upwards for a left move out of cluster j and the start of
\* cluster j + 1 downwards for a right move out of cluster j, and no other;
\* the first boundary stays 0, there are still M boundaries, and no step ever
\* changes the sample sequence.
C14_MoveFrame ==
  [][/\ samples' = samples
     /\ numtransfers' = numtransfers + 1 =>
          /\ pc \in {"left", "right"}
          /\ Len(boundaries') = numclusters
          /\ boundaries'[1] = 0
          /\ pc = "left" =>
               boundaries' = [boundaries EXCEPT ![j + 1] = boundaries[j + 1] + 1]
          /\ pc = "right" =>
               boundaries' = [boundaries EXCEPT ![j + 2] = boundaries[j + 2] - 1]
    ]_vars

\* C14 witness: a left move out of cluster 1 has been accepted after an
\* earlier move of the same call.
C14_Witness ==
  /\ op = "cluster" /\ err = "none"
  /\ lastmove = <<1, 0>>
  /\ numtransfers >= numtransfers0 + 2
  /\ boundaries # bstart

LeftCandidates(nn, th) == LeftLast(nn, th) + 1

\* C16: a right scan of a cluster of n points (on an instance never given a
\* partition) never evaluates more candidates than the bound of a left scan
\* admits for n points: the candidate it is about to evaluate, counted from
\* the cluster's last member, is at most the LeftCandidates(n)-th.
C16_RightScanBound ==
  (op = "cluster" /\ ~partitioned /\ pc = "right") =>
     n - i <= LeftCandidates(n, threshold)

\* C17: every cluster() call of a sequence of consecutive calls performs at
\* most maxiter sweeps of its own, also after a call that ended at the cap.
C17_OwnSweepsWithinCap ==
  op = "cluster" => iterations - iterations0 <= maxiter

\* the rejected candidates that the scans of the sweeps started so far can
\* have evaluated: one per scan, 2M - 2 scans per sweep
RejectsAllowed == (2 * numclusters - 2) * sweeps

\* C18: a scan stops at its first rejected candidate; the evaluation counter
\* grows by exactly one per evaluated candidate, only then, and never
\* decreases; and at all times numtransfers <= cost <= numtransfers +
\* (2M - 2) * sweeps started.
C18_GreedyScan ==
  [][/\ cost' >= cost
     /\ cost' # cost => pc \in {"left", "right"} /\ cost' = cost + 1
     /\ (pc \in {"left", "right"} /\ err' # "TypeError") => cost' = cost + 1
     /\ (pc \in {"left", "right"} /\ numtransfers' = numtransfers) => pc' # pc
     /\ numtransfers' # numtransfers =>
          numtransfers' = numtransfers + 1 /\ cost' = cost + 1
     /\ numtransfers' <= cost'
     /\ cost' <= numtransfers' + RejectsAllowed']_vars

\* a left scan has ended in a sweep after the first, with two moves accepted
\* and more candidates evaluated than accepted
C18_Witness ==
  /\ op = "cluster" /\ err = "none" /\ pc = "mid" /\ j > 0 /\ ~partitioned
  /\ numtransfers >= 2
  /\ cost > numtransfers
  /\ sweeps >= 2
  /\ lastmove = NoMove

\* the segment number floor((i + 1) * M / (N + 1)) of index i
EqBin(idx, N, M) == ((idx + 1) * M) \div (N + 1)

\* C19: for 1 < M < N, init("eq") records exactly M boundaries, the k-th
\* (k = 0 .. M - 1) being the smallest index i with
\* floor((i + 1) * M / (N + 1)) = k, and any two segment sizes differ by at
\* most 1.
C19_EqualCount ==
  LET N == Len(samples)
      M == numclusters
  IN  (op = "init" /\ initmethod = "eq" /\ 1 < M /\ M < N) =>
        /\ Len(boundaries) = M
        /\ \A k \in 0..(M - 1) :
             /\ boundaries[k + 1] \in 0..(N - 1)
             /\ EqBin(boundaries[k + 1], N, M) = k
             /\ \A idx \in 0..(boundaries[k + 1] - 1) : EqBin(idx, N, M) # k
        /\ \A k1, k2 \in 1..M :
             SizeAt(boundaries, k1) - SizeAt(boundaries, k2) <= 1

\* init("eq") ran with 1 < M < N where M does not divide N, so that the
\* segment sizes are not all equal
C19_Witness ==
  /\ op = "init" /\ initmethod = "eq"
  /\ 1 < numclusters /\ numclusters < Len(samples)
  /\ Len(boundaries) = numclusters
  /\ \E k1, k2 \in 1..numclusters :
       SizeAt(boundaries, k1) # SizeAt(boundaries, k2)

\* C20: on an instance that never got a partition, cluster() with M = 1
\* returns with boundaries [0], one cluster holding every sample, and
\* iterations, numtransfers and cost all 0; with M = N the boundaries are
\* 0, 1, ..., N - 1, every cluster is a single sample, and cluster() returns
\* with numtransfers and cost 0.
C20_Degenerate ==
  LET N == Len(samples)
      M == numclusters
  IN  (op = "cluster" /\ ~partitioned) =>
        /\ M = 1 =>
             /\ pc = "idle" /\ err = "none"
             /\ boundaries = <<0>>
             /\ clusters = <<samples>>
             /\ iterations = 0 /\ numtransfers = 0 /\ cost = 0
        /\ M = N =>
             /\ err = "none"
             /\ pc \in {"idle", "seg", "final"}
             /\ boundaries = [k \in 1..N |-> k - 1]
             /\ clusters = [k \in 1..N |-> <<samples[k]>>]
             /\ numtransfers = 0 /\ cost = 0

\* the second cluster() call on an instance with as many clusters as
\* samples (three or more) has returned after its sweep over the singletons
C20_Witness ==
  /\ op = "cluster" /\ ~partitioned /\ pc = "idle" /\ fits = 2
  /\ numclusters = Len(samples) /\ numclusters >= 3
  /\ iterations = 1

=============================================================================
